---- MODULE Spec2Model ----
(***************************************************************************)
(* Model of floris/simulation/pressure_projection.py: class PressureField. *)
(*                                                                         *)
(* Numbers are exact rationals <<n, d>> with d > 0 in lowest terms.  The   *)
(* results of a float division by zero are kept: <<1,0>> is +inf, <<-1,0>> *)
(* is -inf and <<0,0>> is nan.  A 3-D array is a record [sh, a]: sh is the  *)
(* shape <<n0,n1,n2>> and a the row-major (C order) data, a function on    *)
(* 0..n0*n1*n2-1.  A 1-D array is a function on 0..n-1.                    *)
(***************************************************************************)
EXTENDS Integers, Sequences, FiniteSets, TLC

(* ---------------------------------------------------------------- bounds *)
MaxNx == 4
MaxNyz == 3
MaxAmp == 1
MaxCalls == 2

(* ------------------------------------------------------ exact arithmetic *)
IAbs(n) == IF n < 0 THEN -n ELSE n

RECURSIVE GCD(_, _)
GCD(a, b) == IF b = 0 THEN a ELSE GCD(b, a % b)

Sign(n) == IF n > 0 THEN 1 ELSE IF n < 0 THEN -1 ELSE 0

NaN == <<0, 0>>

IsFinite(a) == a[2] # 0

\* n/d for integers n, d; d = 0 gives the float result of a division by zero
Frac(n, d) ==
    IF d = 0 THEN <<Sign(n), 0>>
    ELSE LET g == GCD(IAbs(n), IAbs(d))
             s == IF d < 0 THEN -1 ELSE 1
         IN  <<(s * n) \div g, (s * d) \div g>>

R(n) == <<n, 1>>

Zero == R(0)

\* arithmetic on array elements; a nan operand gives nan.  The only
\* non-finite values that arise are those of RHS/A (line 194), which go to cg
\* and into no further arithmetic
RAdd(a, b) == IF IsFinite(a) /\ IsFinite(b)
              THEN Frac(a[1] * b[2] + b[1] * a[2], a[2] * b[2]) ELSE NaN

RNeg(a) == <<-a[1], a[2]>>

RSub(a, b) == RAdd(a, RNeg(b))

RMul(a, b) == IF IsFinite(a) /\ IsFinite(b)
              THEN Frac(a[1] * b[1], a[2] * b[2]) ELSE NaN

\* a / b; a finite a over a zero b is +-inf or nan as numpy gives it
RDiv(a, b) == IF IsFinite(a) /\ IsFinite(b)
              THEN Frac(a[1] * b[2], a[2] * b[1]) ELSE NaN

RAbs(a) == <<IAbs(a[1]), a[2]>>

\* a < b on floats: false as soon as one side is nan
RLess(a, b) == IsFinite(a) /\ IsFinite(b) /\ a[1] * b[2] < b[1] * a[2]

RGeq(a, b) == IsFinite(a) /\ IsFinite(b) /\ a[1] * b[2] >= b[1] * a[2]

(* ------------------------------------------------------------ array tools *)
Size(sh) == sh[1] * sh[2] * sh[3]

\* flat (ravel) index of element (i, j, k) of an array of shape sh
Flat(sh, i, j, k) == (i * sh[2] + j) * sh[3] + k

\* the three indices of flat index m
Ix(sh, m) == m \div (sh[2] * sh[3])
Iy(sh, m) == (m \div sh[3]) % sh[2]
Iz(sh, m) == m % sh[3]

At(f, i, j, k) == f.a[Flat(f.sh, i, j, k)]

\* np.zeros(shape)
zeros(sh) == [sh |-> sh, a |-> [m \in 0 .. Size(sh) - 1 |-> Zero]]

\* Python's index normalisation: a negative index counts from the end
PyIndex(i, n) == IF i < 0 THEN i + n ELSE i

\* an index Python accepts for an axis of length n
PyIndexOK(i, n) == -n <= i /\ i <= n - 1

\* length of a 1-D array
Len1(x) == Cardinality(DOMAIN x)

\* np.diff of a 1-D array
diff(x) == [m \in 0 .. Len1(x) - 2 |-> RSub(x[m + 1], x[m])]

\* np.argmin of a 1-D array of finite numbers: the first index of the minimum
argmin(x) ==
    CHOOSE m \in DOMAIN x :
        /\ \A q \in DOMAIN x : ~RLess(x[q], x[m])
        /\ \A q \in DOMAIN x : q < m => RLess(x[m], x[q])

\* an attribute that was never assigned (u0, v0, w0, p, u, v, w before the
\* first solve), and RHS = None
Unset == [sh |-> <<0, 0, 0>>, a |-> <<>>]
None == <<>>

IsSet(f) == f.sh # <<0, 0, 0>>

(* ------------------------------------------------------------------ state *)
VARIABLES
    status,     \* "new": no instance yet; "ready": __init__ returned;
                \* "raised": __init__ raised, there is no instance
    x1, y1, z1, \* self.x1, self.y1, self.z1: the coordinates along each axis
    Nx, Ny, Nz, N,
    dx, dy, dz,
    LHS,        \* self.LHS: the bands and offsets handed to scipy's diags
    RHS,
    u0, v0, w0,
    p, u, v, w,
    Nsolves, khub,
    ncalls,     \* history: the number of solve calls made so far
    wrote,      \* history: the solve call that last assigned the predictor
                \* (u0, v0, w0), the RHS and the solution (p, u, v, w)
    call,       \* history: the last call made on the instance, its arguments
                \* and how it ended
    ret         \* the value the last div call returned

grid == <<x1, y1, z1, Nx, Ny, Nz, N, dx, dy, dz, khub>>
fields == <<RHS, u0, v0, w0, p, u, v, w>>
hist == <<ncalls, wrote, call, ret>>
vars == <<status, grid, LHS, fields, Nsolves, hist>>

(* ------------------------------------------------------------ __init__ *)
\* line 43-45: np.max of the boolean array |d - d[0]| < 1e-8
Tol == Frac(1, 100000000)

SpacingAssert(d) == \E m \in DOMAIN d : RLess(RAbs(RSub(d[m], d[0])), Tol)

\* the spacing of an axis is uniform within the tolerance
Uniform(x) == \A m \in DOMAIN diff(x) : RLess(RAbs(RSub(diff(x)[m], diff(x)[0])), Tol)

\* ones[:n] / h**2 as a 1-D array
OnesOver(n, h) == [m \in 0 .. n - 1 |-> RDiv(R(1), RMul(h, h))]

\* range(a, b, step) for step > 0
PyRange(a, b, step) == {m \in a .. b - 1 : (m - a) % step = 0}

\* lines 70-73: the band at offset Nz, with 1/dy**2 subtracted on the slice
\* [i - offy, i) for every i of range(offx, len(offdiagy), offx)
offdiagyOf(n, ny, nz, h) ==
    LET offx == ny * nz
        offy == nz
        len  == n - offy
        base == OnesOver(len, h)
        hits(m) == {i \in PyRange(offx, len, offx) : i - offy <= m /\ m < i}
    IN  [m \in 0 .. len - 1 |->
            RSub(base[m], RMul(R(Cardinality(hits(m))), RDiv(R(1), RMul(h, h))))]

\* the band at offset 1 with the subtraction at Nz::Nz
offdiagzShifted(n, nz, h) ==
    LET len  == n - 1
        base == OnesOver(len, h)
    IN  [m \in 0 .. len - 1 |->
            IF m >= nz /\ (m - nz) % nz = 0
            THEN RSub(base[m], RDiv(R(1), RMul(h, h))) ELSE base[m]]

\* lines 75-77: the band at offset 1, with 1/dz**2 subtracted at Nz-1::Nz
offdiagzOf(n, nz, h) ==
    LET len  == n - 1
        base == OnesOver(len, h)
    IN  [m \in 0 .. len - 1 |->
            IF m >= nz - 1 /\ (m - (nz - 1)) % nz = 0
            THEN RSub(base[m], RDiv(R(1), RMul(h, h))) ELSE base[m]]

\* lines 64-91
_setup_LHS(n, ny, nz, hx, hy, hz) ==
    LET two(h) == RDiv(R(2), RMul(h, h))
        diag == [m \in 0 .. n - 1 |->
                    RSub(RSub(RNeg(two(hx)), two(hy)), two(hz))]
        offx == ny * nz
        offy == nz
        offz == 1
        offdiagx == OnesOver(n - offx, hx)
        offdiagy == offdiagyOf(n, ny, nz, hy)
        offdiagz == offdiagzOf(n, nz, hz)
    IN  [bands   |-> <<offdiagx, offdiagy, offdiagz, diag,
                       offdiagz, offdiagy, offdiagx>>,
         offsets |-> <<-offx, -offy, -offz, 0, offz, offy, offx>>,
         n       |-> n]

\* z[0,0,:] - 90. and the like
Shifted(x, c) == [m \in DOMAIN x |-> RAbs(RSub(x[m], c))]

NoCall == [op |-> "none", out |-> "none", A |-> Zero, smooth |-> FALSE,
           turbx |-> Zero, i0 |-> 0, corrected |-> FALSE, pre |-> Unset,
           ugiven |-> Unset, vgiven |-> FALSE, wgiven |-> FALSE, before |-> <<>>]

\* lines 28-58; gx, gy, gz are flow_field.x[:,0,0], .y[0,:,0], .z[0,0,:]
Construct(gx, gy, gz) ==
    /\ status = "new"
    /\ LET ddx == diff(gx)
           ddy == diff(gy)
           ddz == diff(gz)
           \* dx[0] of an empty dx is an IndexError, a false assert an
           \* AssertionError
           passes == /\ Len1(ddx) > 0 /\ SpacingAssert(ddx)
                     /\ Len1(ddy) > 0 /\ SpacingAssert(ddy)
                     /\ Len1(ddz) > 0 /\ SpacingAssert(ddz)
           n == Len1(gx) * Len1(gy) * Len1(gz)
       IN  IF passes
           THEN /\ status' = "ready"
                /\ x1' = gx /\ y1' = gy /\ z1' = gz
                /\ Nx' = Len1(gx) /\ Ny' = Len1(gy) /\ Nz' = Len1(gz)
                /\ N' = n
                /\ dx' = ddx[0] /\ dy' = ddy[0] /\ dz' = ddz[0]
                /\ LHS' = _setup_LHS(n, Len1(gy), Len1(gz), ddx[0], ddy[0], ddz[0])
                /\ RHS' = None
                /\ Nsolves' = 0
                /\ khub' = argmin(Shifted(gz, R(90)))
                /\ call' = [NoCall EXCEPT !.op = "__init__", !.out = "ok"]
                /\ UNCHANGED <<u0, v0, w0, p, u, v, w, ncalls, wrote, ret>>
           ELSE /\ status' = "raised"
                /\ call' = [NoCall EXCEPT !.op = "__init__", !.out = "raised"]
                /\ UNCHANGED <<grid, LHS, fields, Nsolves, ncalls, wrote, ret>>

(* ------------------------------------------------------ finite differences *)
\* the shape sh with axis ax (1, 2 or 3) set to n
WithAxis(sh, ax, n) == [sh EXCEPT ![ax] = n]

\* index of flat index m along axis ax
IxOf(sh, m, ax) == IF ax = 1 THEN Ix(sh, m) ELSE IF ax = 2 THEN Iy(sh, m) ELSE Iz(sh, m)

\* flat index of the node of m with index t along axis ax
Moved(sh, m, ax, t) ==
    IF ax = 1 THEN Flat(sh, t, Iy(sh, m), Iz(sh, m))
    ELSE IF ax = 2 THEN Flat(sh, Ix(sh, m), t, Iz(sh, m))
    ELSE Flat(sh, Ix(sh, m), Iy(sh, m), t)

\* lines 109-117, 120-124, 127-131: one derivative array of _calc_gradients,
\* for f of the shape of the zeros array it is written into.  The three
\* slice assignments are made in the order [0], [-1], [1:-1]; a later one
\* overwrites an earlier one
AxisDiff(f, ax, h) ==
    LET sh == f.sh
        n  == sh[ax]
        val(m, t) == f.a[Moved(sh, m, ax, t)]
    IN  [sh |-> sh,
         a  |-> [m \in 0 .. Size(sh) - 1 |->
                   LET t == IxOf(sh, m, ax)
                   IN  IF 1 <= t /\ t <= n - 2
                       THEN RDiv(RSub(val(m, t + 1), val(m, t - 1)), RMul(R(2), h))
                       ELSE IF t = PyIndex(-1, n)
                       THEN RDiv(RSub(val(m, PyIndex(-1, n)), val(m, PyIndex(-2, n))), h)
                       ELSE IF t = 0
                       THEN RDiv(RSub(val(m, 1), val(m, 0)), h)
                       ELSE Zero]]

\* lines 97-132.  sh0 is self.u0.shape, the shape of the arrays written into.
\* An argument whose shape differs from sh0 by a longer axis cannot be
\* broadcast into the slices and the assignment raises ValueError
_calc_gradients(uu, vv, ww, sh0, hx, hy, hz) ==
    IF uu.sh # sh0 \/ vv.sh # sh0 \/ ww.sh # sh0
    THEN [raised |-> TRUE, du |-> Unset, dv |-> Unset, dw |-> Unset]
    ELSE [raised |-> FALSE,
          du |-> AxisDiff(uu, 1, hx),
          dv |-> AxisDiff(vv, 2, hy),
          dw |-> AxisDiff(ww, 3, hz)]

\* elementwise sum of two arrays of one shape
FAdd(f, g) == [sh |-> f.sh, a |-> [m \in DOMAIN f.a |-> RAdd(f.a[m], g.a[m])]]

\* the RHS without the dw/dz term
_set_RHS_no_w(du_dx, dv_dy, dw_dz) == FAdd(du_dx, dv_dy).a

\* lines 134-144: the new self.RHS
_set_RHS(du_dx, dv_dy, dw_dz) == FAdd(FAdd(du_dx, dv_dy), dw_dz).a

\* one corrected component with the correction written to [:-2] of the axis
CorrectedShifted(f0, pp, ax, h, A) ==
    LET sh == f0.sh
        n  == sh[ax]
    IN  [sh |-> sh,
         a  |-> [m \in 0 .. Size(sh) - 1 |->
                   LET t == IxOf(sh, m, ax)
                   IN  IF 0 <= t /\ t <= n - 3
                       THEN RSub(f0.a[m],
                                 RMul(A, RDiv(RSub(pp.a[Moved(sh, m, ax, t + 2)],
                                                   pp.a[Moved(sh, m, ax, t)]),
                                              RMul(R(2), h))))
                       ELSE f0.a[m]]]

\* lines 148-158: one corrected component, f0 - A * dp/d(axis) on the nodes
\* 1..n-2 of the axis, a copy of f0 elsewhere
Corrected(f0, pp, ax, h, A) ==
    LET sh == f0.sh
        n  == sh[ax]
    IN  [sh |-> sh,
         a  |-> [m \in 0 .. Size(sh) - 1 |->
                   LET t == IxOf(sh, m, ax)
                   IN  IF 1 <= t /\ t <= n - 2
                       THEN RSub(f0.a[m],
                                 RMul(A, RDiv(RSub(pp.a[Moved(sh, m, ax, t + 1)],
                                                   pp.a[Moved(sh, m, ax, t - 1)]),
                                              RMul(R(2), h))))
                       ELSE f0.a[m]]]

\* lines 146-158
_correct_fields(pp, f0, g0, h0, hx, hy, hz, A) ==
    [u |-> Corrected(f0, pp, 1, hx, A),
     v |-> Corrected(g0, pp, 2, hy, A),
     w |-> Corrected(h0, pp, 3, hz, A)]

(* ------------------------------------------------------------------ interp *)
\* f with the x-slice s replaced by the 2-D array row
WithSlice(f, s, row) ==
    [sh |-> f.sh,
     a  |-> [m \in 0 .. Size(f.sh) - 1 |->
               IF Ix(f.sh, m) = s THEN row[Iy(f.sh, m), Iz(f.sh, m)] ELSE f.a[m]]]

\* lines 257, 273-274: the index i0
interp_i0(xx, turbx) ==
    LET near == argmin(Shifted(xx, turbx))
    IN  IF RGeq(xx[near], turbx) THEN near - 1 ELSE near

\* lines 275-278: f0 and f1 are views of self.u; an index outside -Nx..Nx-1
\* is an IndexError, a negative one inside counts from the end
interp(uf, xx, turbx) ==
    LET i0 == interp_i0(xx, turbx)
        n  == uf.sh[1]
        a  == PyIndex(i0 - 1, n)
        b  == PyIndex(i0 + 2, n)
        first == [j \in 0 .. uf.sh[2] - 1, k \in 0 .. uf.sh[3] - 1 |->
            RAdd(RDiv(RMul(R(1), RSub(At(uf, b, j, k), At(uf, a, j, k))), R(3)),
                 At(uf, a, j, k))]
        uf1 == WithSlice(uf, PyIndex(i0, n), first)
        second == [j \in 0 .. uf.sh[2] - 1, k \in 0 .. uf.sh[3] - 1 |->
            RAdd(RDiv(RMul(R(2), RSub(At(uf1, b, j, k), At(uf1, a, j, k))), R(3)),
                 At(uf1, a, j, k))]
    IN  IF PyIndexOK(i0 - 1, n) /\ PyIndexOK(i0 + 2, n)
           /\ PyIndexOK(i0, n) /\ PyIndexOK(i0 + 1, n)
        THEN [raised |-> FALSE, i0 |-> i0,
              u |-> WithSlice(uf1, PyIndex(i0 + 1, n), second)]
        ELSE [raised |-> TRUE, i0 |-> i0, u |-> uf]

RECURSIVE SumOver(_, _)
SumOver(S, f) == IF S = {} THEN Zero
                 ELSE LET e == CHOOSE e \in S : TRUE
                      IN  RAdd(f[e], SumOver(S \ {e}, f))

\* entry (r, c) of the matrix scipy's diags builds: band b lies on diagonal
\* offsets[b], its element m at row m (offset >= 0) or column m (offset < 0);
\* bands given for the same offset add up
Entry(L, r, c) ==
    LET bs == {b \in 1 .. 7 : L.offsets[b] = c - r}
        m  == IF c >= r THEN r ELSE c
    IN  SumOver(bs, [b \in bs |-> L.bands[b][m]])


(* ------------------------------------------------------------------- solve *)
\* the fields the model hands to solve and lets the solver return: integer
\* profiles over the nodes, scaled by an amplitude c
Profile(sh, kind, c) ==
    [sh |-> sh,
     a  |-> [m \in 0 .. Size(sh) - 1 |->
               LET i == Ix(sh, m)
                   j == Iy(sh, m)
                   k == Iz(sh, m)
               IN  R(c * (CASE kind = "u" -> i * i + 2 * j + k
                            [] kind = "v" -> j * j + i * k
                            [] kind = "w" -> k * k * k + i + j
                            [] kind = "p" -> i * i * i + j * j + k * k + i * j * k))]]

\* scipy.sparse.linalg.cg(LHS, b, x0=zeros, tol, atol): the library is not part
\* of the repository.  Its outcomes are: ValueError when b does not have LHS's
\* dimension; x = 0 with info 0 for b = 0 (the zero initial guess already has
\* a zero residual); for any other finite b either info > 0 (no convergence
\* within the tolerance and the iteration cap) or info 0 with some iterate x;
\* for a b holding nan or inf, info > 0 (the residual is nan or inf and never
\* compares below the tolerance)
cg(L, b, sh) ==
    LET zero == [m \in DOMAIN b |-> Zero]
        fails == [raised |-> FALSE, info |-> 1, x |-> zero]
        done(x) == [raised |-> FALSE, info |-> 0, x |-> x]
    IN  IF Len1(b) # L.n
        THEN {[raised |-> TRUE, info |-> 0, x |-> zero]}
        ELSE IF b = zero THEN {done(zero)}
        ELSE IF \E m \in DOMAIN b : ~IsFinite(b[m]) THEN {fails}
        ELSE {fails} \cup {done(Profile(sh, "p", c).a) : c \in (-MaxAmp) .. MaxAmp}

\* the assert of line 195 with the test inverted
cgSuccessInverted(info) == info # 0

\* line 195: the convergence flag that lets solve go on
cgSuccess(info) == info = 0

\* lines 166-250.  v_wake, w_wake = Unset stand for None; smooth is FALSE for
\* smooth_disk_region=None, and else turbx is coords.x1 and the x of the
\* region is the grid's.  tol only reaches cg, whose convergence is left open.
\* Of the DEBUG block only the count of completed solves is state: its two
\* div calls assign nothing and its figures go to files
solve(u_wake, v_wake, w_wake, smooth, turbx, A) ==
    /\ status = "ready"
    /\ ncalls' = ncalls + 1
    /\ UNCHANGED <<status, grid, LHS, ret>>
    /\ LET c   == ncalls + 1
           u0n == u_wake
           v0n == IF IsSet(v_wake) THEN v_wake ELSE zeros(u0n.sh)
           w0n == IF IsSet(w_wake) THEN w_wake ELSE zeros(u0n.sh)
           g   == _calc_gradients(u0n, v0n, w0n, u0n.sh, dx, dy, dz)
           rhs == _set_RHS(g.du, g.dv, g.dw)
           b   == [m \in DOMAIN rhs |-> RDiv(rhs[m], A)]
           this == [NoCall EXCEPT !.op = "solve", !.A = A, !.smooth = smooth,
                                  !.turbx = turbx, !.ugiven = u_wake,
                                  !.vgiven = IsSet(v_wake),
                                  !.wgiven = IsSet(w_wake), !.before = fields]
       IN  /\ u0' = u0n /\ v0' = v0n /\ w0' = w0n
           /\ IF g.raised
              THEN /\ call' = [this EXCEPT !.out = "raised in _calc_gradients"]
                   /\ wrote' = [wrote EXCEPT !.pred = c]
                   /\ UNCHANGED <<RHS, p, u, v, w, Nsolves>>
              ELSE /\ RHS' = rhs
                   /\ \E o \in cg(LHS, b, u0n.sh) :
                        IF o.raised \/ ~cgSuccess(o.info)
                        THEN /\ call' = [this EXCEPT !.out =
                                            IF o.raised THEN "raised in cg"
                                            ELSE "raised by assert"]
                             /\ wrote' = [wrote EXCEPT !.pred = c, !.rhs = c]
                             /\ UNCHANGED <<p, u, v, w, Nsolves>>
                        ELSE LET pn == [sh |-> u0n.sh, a |-> o.x]
                                 cf == _correct_fields(pn, u0n, v0n, w0n, dx, dy, dz, A)
                                 sm == interp(cf.u, x1, turbx)
                             IN  /\ p' = pn /\ v' = cf.v /\ w' = cf.w
                                 /\ wrote' = [pred |-> c, rhs |-> c, sol |-> c]
                                 /\ IF smooth /\ sm.raised
                                    THEN /\ u' = cf.u
                                         /\ call' = [this EXCEPT !.out = "raised in interp",
                                                                  !.i0 = sm.i0, !.pre = cf.u]
                                         /\ UNCHANGED Nsolves
                                    ELSE /\ u' = IF smooth THEN sm.u ELSE cf.u
                                         /\ call' = [this EXCEPT !.out = "ok",
                                                        !.i0 = IF smooth THEN sm.i0 ELSE 0,
                                                        !.pre = cf.u]
                                         /\ Nsolves' = Nsolves + 1

(* --------------------------------------------------------------------- div *)
\* lines 160-164: the value div returns, Unset when it raises.  It raises
\* AttributeError while self.u (corrected) or self.RHS (else) was never
\* assigned, and ValueError when the shapes do not fit self.u0.shape
divResult(corrected) ==
    IF corrected
    THEN IF ~IsSet(u) THEN Unset
         ELSE LET g == _calc_gradients(u, v, w, u0.sh, dx, dy, dz)
              IN  IF g.raised THEN Unset ELSE FAdd(FAdd(g.du, g.dv), g.dw)
    ELSE IF RHS = None \/ Len1(RHS) # Size(u0.sh) THEN Unset
         ELSE [sh |-> u0.sh, a |-> RHS]

\* a div that caches the divergence it recomputed, as update_RHS does
divRHSCached(corrected) ==
    IF corrected /\ IsSet(divResult(TRUE)) THEN divResult(TRUE).a ELSE RHS

\* lines 160-164: what a div call leaves in self.RHS
divRHS(corrected) == RHS

div(corrected) ==
    /\ status = "ready"
    /\ ret' = divResult(corrected)
    /\ RHS' = divRHS(corrected)
    /\ call' = [NoCall EXCEPT !.op = "div", !.corrected = corrected,
                              !.out = IF IsSet(divResult(corrected)) THEN "ok" ELSE "raised"]
    /\ UNCHANGED <<status, grid, LHS, u0, v0, w0, p, u, v, w, Nsolves, ncalls, wrote>>

(* ------------------------------------------------------------------ inputs *)
\* a uniform axis of n nodes h apart, and one whose last spacing is 10% longer
AxisU(n, h) == [m \in 0 .. n - 1 |-> R(h * m)]
AxisJump(n, h) == [m \in 0 .. n - 1 |->
                     IF m = n - 1 THEN Frac(10 * h * m + h, 10) ELSE R(h * m)]

HX == 2
HY == 1
HZ == 3

Grids ==
    {<<AxisU(nx, HX), AxisU(ny, HY), AxisU(nz, HZ)>> :
        nx \in 1 .. MaxNx, ny \in 2 .. MaxNyz, nz \in 2 .. MaxNyz}
    \cup {<<AxisJump(3, HX), AxisU(2, HY), AxisU(2, HZ)>>,
          <<AxisU(3, HX), AxisJump(3, HY), AxisU(2, HZ)>>,
          <<AxisU(2, HX), AxisU(2, HY), AxisJump(4, HZ)>>}

Shape == <<Nx, Ny, Nz>>

\* a shape no array of the grid's shape can be broadcast with
WrongShape == <<Nx, Ny + 2, Nz>>

UWakes == {Profile(Shape, "u", c) : c \in 0 .. MaxAmp} \cup {Profile(WrongShape, "u", 1)}
VWakes == {Unset} \cup {Profile(Shape, "v", c) : c \in 1 .. MaxAmp}
             \cup {Profile(WrongShape, "v", 1)}
WWakes == {Unset} \cup {Profile(Shape, "w", c) : c \in 1 .. MaxAmp}
AVals == {R(0), R(2)}

\* target x-locations: from before the first node to after the last
Targets == {R(t) : t \in -1 .. HX * (Nx - 1) + 1}

(* ----------------------------------------------------------- specification *)
Init ==
    /\ status = "new"
    /\ x1 = <<>> /\ y1 = <<>> /\ z1 = <<>>
    /\ Nx = 0 /\ Ny = 0 /\ Nz = 0 /\ N = 0
    /\ dx = Zero /\ dy = Zero /\ dz = Zero
    /\ khub = 0
    /\ LHS = [bands |-> <<>>, offsets |-> <<>>, n |-> 0]
    /\ RHS = None
    /\ u0 = Unset /\ v0 = Unset /\ w0 = Unset
    /\ p = Unset /\ u = Unset /\ v = Unset /\ w = Unset
    /\ Nsolves = 0
    /\ ncalls = 0
    /\ wrote = [pred |-> 0, rhs |-> 0, sol |-> 0]
    /\ call = NoCall
    /\ ret = Unset

New == \E g \in Grids : Construct(g[1], g[2], g[3])

\* the first solve call on a fresh instance
Solve ==
    /\ ncalls = 0
    /\ \E uw \in UWakes, vw \in VWakes, ww \in WWakes, A \in AVals :
          solve(uw, vw, ww, FALSE, Zero, A)

\* the first solve call, with the smoothing patch
SolveSmooth ==
    /\ ncalls = 0
    /\ \E uw \in UWakes, t \in Targets, A \in AVals :
          solve(uw, Unset, Unset, TRUE, t, A)

Div == \E corrected \in BOOLEAN : div(corrected)

Next == New \/ Solve \/ SolveSmooth \/ Div

Spec == Init /\ [][Next]_vars

\* repeated solve calls on one instance, on the smallest grids
SmallGrids == {<<AxisU(nx, HX), AxisU(2, HY), AxisU(2, HZ)>> : nx \in 2 .. 3}

NewSmall == \E g \in SmallGrids : Construct(g[1], g[2], g[3])

Resolve ==
    /\ ncalls < MaxCalls
    /\ \E c \in 0 .. MaxAmp, A \in AVals :
          solve(Profile(Shape, "u", c), Unset, Unset, FALSE, Zero, A)

NextRepeat == NewSmall \/ Resolve \/ Div

SpecRepeat == Init /\ [][NextRepeat]_vars

(* ------------------------------------------------------------------ claims *)
Nodes == 0 .. N - 1

SolvedPlain == call.op = "solve" /\ call.out = "ok" /\ ~call.smooth

\* C1 (as claimed): an instance exists only for a grid whose spacing is
\* uniform along all three axes; a non-uniform grid is refused by __init__
C1_NonUniformRefused ==
    status = "ready" => Uniform(x1) /\ Uniform(y1) /\ Uniform(z1)

\* a node that is first or last along some axis
Boundary(m) ==
    \/ Ix(Shape, m) \in {0, Nx - 1}
    \/ Iy(Shape, m) \in {0, Ny - 1}
    \/ Iz(Shape, m) \in {0, Nz - 1}

\* C2 (as claimed): after a solve without smoothing, u, v and w equal u0, v0
\* and w0 at every node that is first or last along any axis
C2_AllBoundaryNodesKept ==
    SolvedPlain =>
        \A m \in Nodes :
            Boundary(m) => u.a[m] = u0.a[m] /\ v.a[m] = v0.a[m] /\ w.a[m] = w0.a[m]

\* C2 (amended): after a solve without smoothing, each corrected component
\* equals its predictor at the nodes that are first or last along the
\* component's own axis: u along x, v along y, w along z
C2_OwnAxisBoundaryKept ==
    SolvedPlain =>
        \A m \in Nodes :
            /\ Ix(Shape, m) \in {0, Nx - 1} => u.a[m] = u0.a[m]
            /\ Iy(Shape, m) \in {0, Ny - 1} => v.a[m] = v0.a[m]
            /\ Iz(Shape, m) \in {0, Nz - 1} => w.a[m] = w0.a[m]

C2_Witness ==
    /\ SolvedPlain
    /\ Nx >= 3 /\ Ny >= 3 /\ Nz >= 3
    /\ u # u0 /\ v # v0 /\ w # w0

\* the operator entry the 7-point stencil has between nodes r and c
Stencil(r, c) ==
    LET inv(h) == RDiv(R(1), RMul(h, h))
        di == IAbs(Ix(Shape, r) - Ix(Shape, c))
        dj == IAbs(Iy(Shape, r) - Iy(Shape, c))
        dk == IAbs(Iz(Shape, r) - Iz(Shape, c))
    IN  IF r = c
        THEN RSub(RSub(RNeg(RMul(R(2), inv(dx))), RMul(R(2), inv(dy))), RMul(R(2), inv(dz)))
        ELSE IF di = 1 /\ dj = 0 /\ dk = 0 THEN inv(dx)
        ELSE IF di = 0 /\ dj = 1 /\ dk = 0 THEN inv(dy)
        ELSE IF di = 0 /\ dj = 0 /\ dk = 1 THEN inv(dz)
        ELSE Zero

\* C3: the operator __init__ assembles is symmetric and is the 7-point
\* stencil: the diagonal value on the diagonal, 1/dx^2, 1/dy^2, 1/dz^2
\* between grid neighbours along x, y, z and 0 between any other two nodes
C3_OperatorIsStencil ==
    (status = "ready" /\ call.op = "__init__") =>
        \A r \in Nodes, c \in Nodes :
            /\ Entry(LHS, r, c) = Stencil(r, c)
            /\ Entry(LHS, r, c) = Entry(LHS, c, r)

\* an operator of a grid with interior nodes along every axis, where the
\* last node of a y-row and of a z-column have a successor in flat order
C3_Witness ==
    /\ status = "ready" /\ call.op = "__init__"
    /\ Nx >= 3 /\ Ny >= 3 /\ Nz >= 3
    /\ Entry(LHS, Flat(Shape, 0, Ny - 1, 0), Flat(Shape, 1, 0, 0)) = Zero
    /\ Entry(LHS, Flat(Shape, 0, 0, Nz - 1), Flat(Shape, 0, 1, 0)) = Zero
    /\ Entry(LHS, Flat(Shape, 1, 1, 1), Flat(Shape, 1, 2, 1)) # Zero

\* the derivative of f along axis ax at node m: forward at the first node,
\* backward at the last, central in between
Derivative(f, ax, h, m) ==
    LET n == f.sh[ax]
        t == IxOf(f.sh, m, ax)
        val(q) == f.a[Moved(f.sh, m, ax, q)]
    IN  IF t = 0 THEN RDiv(RSub(val(1), val(0)), h)
        ELSE IF t = n - 1 THEN RDiv(RSub(val(n - 1), val(n - 2)), h)
        ELSE RDiv(RSub(val(t + 1), val(t - 1)), RMul(R(2), h))

\* C4: the RHS a solve call caches is, at flat index i*Ny*Nz + j*Nz + k, the
\* sum of du/dx, dv/dy and dw/dz of that call's predictor at node (i,j,k),
\* and an omitted v or w adds nothing
C4_RHSIsDivergence ==
    (wrote.rhs > 0 /\ wrote.rhs = wrote.pred) =>
        \A i \in 0 .. u0.sh[1] - 1, j \in 0 .. u0.sh[2] - 1, k \in 0 .. u0.sh[3] - 1 :
            LET m == i * u0.sh[2] * u0.sh[3] + j * u0.sh[3] + k
                ddx == Derivative(u0, 1, dx, m)
                ddy == IF call.op = "solve" /\ ~call.vgiven THEN Zero
                       ELSE Derivative(v0, 2, dy, m)
                ddz == IF call.op = "solve" /\ ~call.wgiven THEN Zero
                       ELSE Derivative(w0, 3, dz, m)
            IN  RHS[m] = RAdd(RAdd(ddx, ddy), ddz)

C4_Witness ==
    /\ call.op = "solve" /\ call.out = "ok" /\ call.vgiven /\ call.wgiven
    /\ Nx >= 3 /\ Ny >= 3 /\ Nz >= 3
    /\ \E m \in Nodes : Derivative(w0, 3, dz, m) # Zero /\ RHS[m] # Zero


\* the last solve call was given a component whose shape is not the grid's
Mismatched ==
    /\ call.op = "solve"
    /\ \/ u0.sh # Shape
       \/ call.vgiven /\ v0.sh # Shape
       \/ call.wgiven /\ w0.sh # Shape

\* C5 (as claimed): a solve call given a component of another shape than the
\* grid's raises before any computation: the linear solver is not reached and
\* every cached field is as it was before the call
C5_MismatchFailsFast ==
    Mismatched =>
        /\ call.out \notin {"ok", "raised in cg", "raised by assert", "raised in interp"}
        /\ fields = call.before

\* C6 (as claimed): p, u, v, w are unset, or they were assigned by the same
\* solve call as the cached predictor and the cached RHS
C6_FieldsOfOneCall ==
    status = "ready" =>
        \/ ~IsSet(p) /\ ~IsSet(u) /\ ~IsSet(v) /\ ~IsSet(w)
        \/ wrote.sol = wrote.rhs /\ wrote.sol = wrote.pred

\* the last solve call, without smoothing, had a predictor that is zero at
\* every node of the grid
ZeroSolve ==
    /\ call.op = "solve" /\ ~call.smooth
    /\ u0 = zeros(Shape) /\ v0 = zeros(Shape) /\ w0 = zeros(Shape)

ZeroSolved ==
    /\ call.out = "ok"
    /\ p = zeros(Shape)
    /\ u = u0 /\ v = v0 /\ w = w0

\* C7 (as claimed): for a zero predictor and any A, a solve without smoothing
\* succeeds with p zero and u, v, w equal to the predictor
C7_ZeroPredictorAnyA == ZeroSolve => ZeroSolved

\* C7 (amended): for a zero predictor and any A other than 0, a solve
\* without smoothing succeeds with p zero and u, v, w equal to the predictor
C7_ZeroPredictorNonzeroA == (ZeroSolve /\ call.A # Zero) => ZeroSolved

C7_Witness == ZeroSolve /\ call.A # Zero /\ ZeroSolved /\ Nx >= 3 /\ wrote.sol = 1

\* C8: a div call changes none of LHS, RHS, u0, v0, w0, p, u, v, w; a second
\* call with the same flag returns what the first returned; and after a
\* successful solve, corrected=False returns the cached RHS in the shape
\* (Nx, Ny, Nz)
C8_DivPureRead ==
    [][call'.op = "div" =>
          /\ UNCHANGED <<LHS, RHS, u0, v0, w0, p, u, v, w>>
          /\ (call.op = "div" /\ call.corrected = call'.corrected) => ret' = ret
          /\ (~call'.corrected /\ wrote.sol > 0 /\ wrote.sol = wrote.pred)
                => ret' = [sh |-> Shape, a |-> RHS]]_vars

\* a corrected divergence was returned that is not the cached RHS
C8_Witness ==
    /\ call.op = "div" /\ call.corrected /\ call.out = "ok"
    /\ wrote.sol > 0 /\ wrote.sol = wrote.pred
    /\ ret.a # RHS

Smoothed == call.op = "solve" /\ call.smooth /\ call.out = "ok" /\ Nx >= 4

\* C9 (as claimed): on a grid that has four x-slices, the smoothing patch
\* overwrites the two consecutive x-slices i0 and i0+1 of the corrected u
\* with the 1/3 and 2/3 interpolants between slices i0-1 and i0+2, and leaves
\* every other slice of u, and v and w, as the correction step made them
C9_PatchTwoConsecutiveSlices ==
    Smoothed =>
        LET i0   == call.i0
            pre  == call.pre
            lo(m) == pre.a[Moved(Shape, m, 1, PyIndex(i0 - 1, Nx))]
            hi(m) == pre.a[Moved(Shape, m, 1, PyIndex(i0 + 2, Nx))]
            third(m) == RDiv(RSub(hi(m), lo(m)), R(3))
        IN  /\ i0 = interp_i0(x1, call.turbx)
            /\ pre = Corrected(u0, p, 1, dx, call.A)
            /\ v = Corrected(v0, p, 2, dy, call.A)
            /\ w = Corrected(w0, p, 3, dz, call.A)
            /\ i0 \in 0 .. Nx - 2
            /\ \A m \in Nodes :
                  u.a[m] = IF Ix(Shape, m) = i0 THEN RAdd(lo(m), third(m))
                           ELSE IF Ix(Shape, m) = i0 + 1
                           THEN RAdd(lo(m), RMul(R(2), third(m)))
                           ELSE pre.a[m]

\* C10 (as claimed): on a grid with Nx >= 4 the slices i0-1 .. i0+2 the
\* patch uses are slices 0 .. Nx-1 of the domain, whatever the target, and
\* the target lies in (x[i0], x[i0+1]]
C10_SliceIndicesInRange ==
    (call.op = "solve" /\ call.smooth /\ call.out \in {"ok", "raised in interp"}
       /\ Nx >= 4) =>
        /\ 0 <= call.i0 - 1
        /\ call.i0 + 2 <= Nx - 1
        /\ RLess(x1[call.i0], call.turbx)
        /\ RGeq(x1[call.i0 + 1], call.turbx)

====
